---- MODULE Spec2Model ----
(***************************************************************************)
(* A model of the Chinese comprehension checker (script.py): the           *)
(* normalizer text_clean_up, the DP segmenter dp_tokenize, the content     *)
(* filter filter_content, the scorer calculate_comprehension_stats and the *)
(* driver comprehension_checker.                                           *)
(*                                                                         *)
(* A character is a string naming one code point; a text, a word and a     *)
(* token are sequences of characters.  Python's slice text[a:b] (0-based,  *)
(* half open) is Slice(text, a, b).                                        *)
(***************************************************************************)
EXTENDS Integers, Sequences, FiniteSets, TLC

VARIABLES
    pc,                \* position of the running function
    raw_text,          \* the text as supplied (clipboard; text_clean_up's argument)
    cleaned_text,      \* text_clean_up's result
    text,              \* dp_tokenize: its argument text
    known_file,        \* the known-words file: NoFile, or the words it lists
    known_words,       \* the set of known words (dp_tokenize, scorer)
    exclusions,        \* the Exclusion Set of the analysis
    cuts,              \* the fallback segmenter: offsets at which it cuts
    dp,                \* dp_tokenize: the table dp[0..n]
    i,                 \* dp_tokenize: the position the outer loop is at
    calls,             \* dp_tokenize: the slices [a, b) handed to jieba.cut so far
    tokens,            \* dp_tokenize's result; filter_content's argument
    filtered_content,  \* filter_content's result; the scorer's argument
    stats,             \* calculate_comprehension_stats' result
    outcome            \* comprehension_checker's result

vars == <<pc, raw_text, cleaned_text, text, known_file, known_words, exclusions,
          cuts, dp, i, calls, tokens, filtered_content, stats, outcome>>

\* the variables each function leaves alone
cleanVars == <<raw_text, cleaned_text>>
dpVars == <<text, cuts, dp, i, calls>>
scoreVars == <<stats>>
checkerVars == <<known_file, outcome>>

\* no known-words file at the path, or a file listing words
NoFile == [exists |-> FALSE, words |-> {}]
FileOf(words) == [exists |-> TRUE, words |-> words]

\* nothing computed yet, nothing returned yet
NoStats == [computed |-> FALSE]
NoOutcome == [kind |-> "none"]

----------------------------------------------------------------------------
(* Bounds of the model *)

\* longest text handed to dp_tokenize
MaxLen == 4

\* most words in a base word list
MaxWords == 3

----------------------------------------------------------------------------
(* Characters *)

\* Chinese characters of the segmenter's texts
Hanzi == {"zhong", "guo", "ren", "min"}

\* words a base word list is drawn from
WordPool ==
    { <<"guo">>, <<"zhong", "guo">>, <<"zhong", "guo", "ren">>,
      <<"ren", "min">>, <<"min">> }

----------------------------------------------------------------------------
(* Helpers *)

Slice(s, a, b) == SubSeq(s, a + 1, b)

RECURSIVE Concat(_)
Concat(ss) == IF ss = <<>> THEN <<>> ELSE Head(ss) \o Concat(Tail(ss))

Range(s) == { s[x] : x \in DOMAIN s }

MinOf(S) == CHOOSE x \in S : \A y \in S : x <= y

MaxOf(S) == CHOOSE x \in S : \A y \in S : x >= y

\* all sequences over S of length 0..n
SeqsUpTo(S, n) == UNION { [1..k -> S] : k \in 0..n }

----------------------------------------------------------------------------
(* load_word_list_from_file: the words of the file and, for each word,     *)
(* its individual characters.                                              *)

\* the words of the file alone
load_word_list_unexpanded(words) == words \ {<<>>}

load_word_list_from_file(words) ==
    LET finalized_words == words \ {<<>>}
    IN  finalized_words \cup
        UNION { { <<w[x]>> : x \in DOMAIN w } : w \in finalized_words }

\* the base word lists, and the sets dp_tokenize is given: a base list as it
\* is, or expanded with its characters
BaseLists == { K \in SUBSET WordPool : Cardinality(K) <= MaxWords }

KnownChoices == BaseLists \cup { load_word_list_from_file(K) : K \in BaseLists }

----------------------------------------------------------------------------
(* The fallback segmenter jieba.cut: it cuts the string it is given at     *)
(* the offsets in cuts, so its tokens concatenate to that string.          *)

\* no cut, a cut after the first character, after the second, after every one
CutChoices == { {}, {1}, {2}, 1..MaxLen }

RECURSIVE CutAt(_, _)
CutAt(s, offs) ==
    IF s = <<>> THEN <<>>
    ELSE LET nxt == MinOf({ p \in offs : 0 < p /\ p < Len(s) } \cup {Len(s)})
         IN  <<Slice(s, 0, nxt)>>
             \o CutAt(Slice(s, nxt, Len(s)), { p - nxt : p \in offs })

jieba_cut(s) == CutAt(s, cuts)

----------------------------------------------------------------------------
(* dp_tokenize *)

MAX_WORD_LENGTH == 4

\* float('-inf'): below every score, and absorbing under addition
NegInf == -1

\* the score counting one per known word
PlusOne(a, b) == IF a = NegInf THEN NegInf ELSE a + 1

Plus(a, b) == IF a = NegInf THEN NegInf ELSE a + b

Entry(score, seg, unknown_start) ==
    [score |-> score, seg |-> seg, unknown_start |-> unknown_start]

Tagged(ws, is_known) == [x \in DOMAIN ws |-> [word |-> ws[x], is_known |-> is_known]]

\* dp = [(0, [], -1)] + [(float('-inf'), [], -1)] * n
InitialTable(n) ==
    [k \in 0..n |-> IF k = 0 THEN Entry(0, <<>>, -1) ELSE Entry(NegInf, <<>>, -1)]

\* the unknown sequence text[a:b], segmented by jieba and tagged unknown
UnknownTokens(t, a, b) == Tagged(jieba_cut(Slice(t, a, b)), FALSE)

ResolveRunDropped(t, prev, j) == prev.seg

\* new_seg: prev_seg, and the unknown sequence before position j if one is open
ResolveRun(t, prev, j) ==
    IF prev.unknown_start # -1
    THEN prev.seg \o UnknownTokens(t, prev.unknown_start, j)
    ELSE prev.seg

BetterOrEqual(new_score, old_score) == new_score >= old_score

\* if new_score > dp[i][0]
Better(new_score, old_score) == new_score > old_score

\* the candidate entry for the known word text[j:i]
Candidate(t, d, j, ii) ==
    LET word == Slice(t, j, ii)
    IN  Entry(Plus(d[j].score, Len(word)),
              ResolveRun(t, d[j], j) \o Tagged(<<word>>, TRUE),
              -1)

\* for j in range(max(0, i - MAX_WORD_LENGTH), i), from j on
RECURSIVE ScanCandidates(_, _, _, _, _)
ScanCandidates(t, known, d, ii, j) ==
    IF j >= ii THEN d
    ELSE LET cand == Candidate(t, d, j, ii)
         IN  IF Slice(t, j, ii) \in known /\ Better(cand.score, d[ii].score)
             THEN ScanCandidates(t, known, [d EXCEPT ![ii] = cand], ii, j + 1)
             ELSE ScanCandidates(t, known, d, ii, j + 1)

\* max(range(i), key=lambda x: dp[x][0]): the first position of the best score
BestPrev(d, ii) ==
    MinOf({ x \in 0..(ii - 1) : \A y \in 0..(ii - 1) : d[x].score >= d[y].score })

\* the unknown sequence started anew at the position before i
ExtendUnknownRestart(d, ii) ==
    LET prev == d[BestPrev(d, ii)]
    IN  [d EXCEPT ![ii] = Entry(prev.score, prev.seg, ii - 1)]

\* no known word ends at i: continue from the best previous position
ExtendUnknown(d, ii) ==
    LET best_prev == BestPrev(d, ii)
        prev == d[best_prev]
        unknown_start ==
            IF prev.unknown_start = -1 THEN best_prev ELSE prev.unknown_start
    IN  [d EXCEPT ![ii] = Entry(prev.score, prev.seg, unknown_start)]

\* one iteration of the outer loop, at position i
DpStep(t, known, d, ii) ==
    LET lo == IF ii - MAX_WORD_LENGTH > 0 THEN ii - MAX_WORD_LENGTH ELSE 0
        d1 == ScanCandidates(t, known, d, ii, lo)
    IN  IF d1[ii].score = NegInf THEN ExtendUnknown(d1, ii) ELSE d1

\* final_seg as dp[n] has it
FinalSegUnresolved(t, d) == d[Len(t)].seg

\* final_seg, with the trailing unknown sequence segmented
FinalSeg(t, d) ==
    LET n == Len(t)
        final == d[n]
    IN  IF final.unknown_start # -1
        THEN final.seg \o UnknownTokens(t, final.unknown_start, n)
        ELSE final.seg

\* max(0, i - MAX_WORD_LENGTH)
LowestStart(ii) == IF ii - MAX_WORD_LENGTH > 0 THEN ii - MAX_WORD_LENGTH ELSE 0

\* the slices jieba.cut is called on at position i: for each j from j on whose
\* word text[j:i] is known and whose dp[j] has an open unknown sequence, before
\* the scores are compared
RECURSIVE StepCalls(_, _, _, _, _)
StepCalls(t, known, d, ii, j) ==
    IF j >= ii THEN <<>>
    ELSE (IF Slice(t, j, ii) \in known /\ d[j].unknown_start # -1
          THEN << <<d[j].unknown_start, j>> >>
          ELSE <<>>)
         \o StepCalls(t, known, d, ii, j + 1)

\* the slice jieba.cut is called on after the loop
FinalCalls(t, d) ==
    IF d[Len(t)].unknown_start # -1
    THEN << <<d[Len(t)].unknown_start, Len(t)>> >>
    ELSE <<>>

\* [word for word, _ in final_seg]
StripTags(seg) == [x \in DOMAIN seg |-> seg[x].word]

----------------------------------------------------------------------------
(* dp_tokenize as a process: the call, each loop iteration, the return *)

DpInit ==
    /\ pc = "dp_call"
    /\ text \in SeqsUpTo(Hanzi, MaxLen)
    /\ known_words \in KnownChoices
    /\ cuts \in CutChoices
    /\ dp = <<>>
    /\ i = 0
    /\ calls = <<>>
    /\ tokens = <<>>
    /\ raw_text = <<>> /\ cleaned_text = <<>>
    /\ known_file = NoFile /\ exclusions = {}
    /\ filtered_content = <<>> /\ stats = NoStats /\ outcome = NoOutcome

\* if not text: return []; else build the table
DpEnter ==
    /\ pc = "dp_call"
    /\ IF text = <<>>
       THEN /\ pc' = "dp_done"
            /\ UNCHANGED <<dp, i>>
       ELSE /\ pc' = "dp_loop"
            /\ dp' = InitialTable(Len(text))
            /\ i' = 1
    /\ UNCHANGED <<text, known_words, cuts, calls, tokens>>
    /\ UNCHANGED <<cleanVars, scoreVars, checkerVars, exclusions, filtered_content>>

\* for i in range(1, n + 1)
DpLoop ==
    /\ pc = "dp_loop"
    /\ i <= Len(text)
    /\ dp' = DpStep(text, known_words, dp, i)
    /\ calls' = calls \o StepCalls(text, known_words, dp, i, LowestStart(i))
    /\ i' = i + 1
    /\ UNCHANGED <<pc, text, known_words, cuts, tokens>>
    /\ UNCHANGED <<cleanVars, scoreVars, checkerVars, exclusions, filtered_content>>

\* the loop is over: segment the trailing unknown sequence and return;
\* final_seg is the list held by dp[n], which extend() changes in place
DpReturn ==
    /\ pc = "dp_loop"
    /\ i > Len(text)
    /\ dp' = [dp EXCEPT ![Len(text)].seg = FinalSeg(text, dp)]
    /\ tokens' = StripTags(FinalSeg(text, dp))
    /\ calls' = calls \o FinalCalls(text, dp)
    /\ pc' = "dp_done"
    /\ UNCHANGED <<text, known_words, cuts, i>>
    /\ UNCHANGED <<cleanVars, scoreVars, checkerVars, exclusions, filtered_content>>

DpNext == DpEnter \/ DpLoop \/ DpReturn

SpecDp == DpInit /\ [][DpNext]_vars

----------------------------------------------------------------------------
(* Properties of dp_tokenize *)

Returned == pc = "dp_done" /\ text # <<>>

\* the total length of the known-tagged tokens of a segmentation
RECURSIVE KnownLength(_)
KnownLength(seg) ==
    IF seg = <<>> THEN 0
    ELSE (IF Head(seg).is_known THEN Len(Head(seg).word) ELSE 0)
         + KnownLength(Tail(seg))

\* the most characters of t[0:k] that non-overlapping spans can cover, each
\* span a member of known of length at most MAX_WORD_LENGTH
RECURSIVE BestCoverage(_, _, _)
BestCoverage(t, known, k) ==
    IF k = 0 THEN 0
    ELSE MaxOf({ BestCoverage(t, known, k - 1) } \cup
               { BestCoverage(t, known, j) + (k - j) :
                   j \in { x \in 0..(k - 1) :
                             /\ k - x <= MAX_WORD_LENGTH
                             /\ Slice(t, x, k) \in known } })

\* C1: the tokens dp_tokenize returns concatenate to its input text, for
\* every text and every set of known words (the fallback segmenter's tokens
\* concatenate to the string it is given).
C1_FullCoverage == pc = "dp_done" => Concat(tokens) = text

\* a returned segmentation with a known word, a resolved unknown sequence
\* before it and a trailing unknown sequence
C1_Witness ==
    /\ Returned
    /\ dp[Len(text)].unknown_start > 0
    /\ \E x, y \in DOMAIN dp[Len(text)].seg :
          /\ x < y
          /\ ~dp[Len(text)].seg[x].is_known
          /\ dp[Len(text)].seg[y].is_known
    /\ Len(tokens) >= 3

\* C2: the final score dp[n], the total length of the known-tagged tokens
\* returned, is the most that non-overlapping known spans of length at most
\* MAX_WORD_LENGTH can cover.
C2_OptimalKnownCoverage ==
    Returned =>
        /\ dp[Len(text)].score = KnownLength(dp[Len(text)].seg)
        /\ dp[Len(text)].score = BestCoverage(text, known_words, Len(text))

\* the known-word candidates ending at position ii, and the best of their scores
CandidateStarts(ii) ==
    { j \in 0..(ii - 1) :
        /\ ii - j <= MAX_WORD_LENGTH
        /\ Slice(text, j, ii) \in known_words }

CandidateScore(j, ii) == dp[j].score + (ii - j)

LongestBest(ii) ==
    MinOf({ j \in CandidateStarts(ii) :
              \A x \in CandidateStarts(ii) :
                  CandidateScore(j, ii) >= CandidateScore(x, ii) })

ExampleText == <<"zhong", "guo", "ren", "min">>

ExampleWords == { <<"guo">>, <<"zhong", "guo">>, <<"zhong", "guo", "ren">> }

\* C4: at every processed position where known words end, dp keeps the best
\* candidate score and, among the candidates reaching it, the one starting
\* first (the longest word) as its last token; and with the known words
\* guo, zhong-guo, zhong-guo-ren, with or without their characters, the
\* segmentation of zhong-guo-ren-min begins with the token zhong-guo-ren.
C4_LongestKnownWordTieBreak ==
    /\ pc \in {"dp_loop", "dp_done"} /\ text # <<>> =>
          \A ii \in 1..(i - 1) :
              CandidateStarts(ii) # {} =>
                  LET j == LongestBest(ii)
                      seg == dp[ii].seg
                  IN  /\ dp[ii].score = CandidateScore(j, ii)
                      /\ seg # <<>>
                      /\ seg[Len(seg)] =
                            [word |-> Slice(text, j, ii), is_known |-> TRUE]
    /\ ( /\ pc = "dp_done"
         /\ text = ExampleText
         /\ known_words \in {ExampleWords, load_word_list_from_file(ExampleWords)} )
       => /\ tokens # <<>>
          /\ tokens[1] = <<"zhong", "guo", "ren">>

\* the example with the characters added: at positions 2 and 3 a shorter
\* known word ties with the longest one
C4_Witness ==
    /\ pc = "dp_done"
    /\ text = ExampleText
    /\ known_words = load_word_list_from_file(ExampleWords)
    /\ \E ii \in 1..Len(text) :
          \E j \in CandidateStarts(ii) :
              /\ j > LongestBest(ii)
              /\ CandidateScore(j, ii) = CandidateScore(LongestBest(ii), ii)
    /\ tokens[1] = <<"zhong", "guo", "ren">>

----------------------------------------------------------------------------
(* is_word_known and calculate_comprehension_stats *)

\* most tokens in a filtered token sequence
MaxTokens == 6

\* tokens of the scorer's input
TokenPool == { <<"wo">>, <<"ai">>, <<"ni">>, <<"mao">>, <<"wo", "ai">> }

ScoreKnownChoices ==
    { { <<"wo">>, <<"ai">>, <<"ni">> }, { <<"wo", "ai">>, <<"mao">> } }

\* the compound words the user lists as not to count as known
ExclusionChoices == { {}, { <<"wo", "ai">> } }

is_word_known_direct(word, known) == word \in known

\* word in known_words, or all its characters are
is_word_known(word, known) ==
    \/ word \in known
    \/ \A x \in DOMAIN word : <<word[x]>> \in known

Front(s) == SubSeq(s, 1, Len(s) - 1)

\* Counter: one more occurrence of hanzi; a new key goes last
CounterAdd(counted, hanzi) ==
    IF \E x \in DOMAIN counted : counted[x].hanzi = hanzi
    THEN [x \in DOMAIN counted |->
            IF counted[x].hanzi = hanzi
            THEN [counted[x] EXCEPT !.count = @ + 1]
            ELSE counted[x]]
    ELSE Append(counted, [hanzi |-> hanzi, count |-> 1])

\* Counter(filtered_content), its items in insertion order
RECURSIVE Counter(_)
Counter(content) ==
    IF content = <<>> THEN <<>>
    ELSE CounterAdd(Counter(Front(content)), content[Len(content)])

InsertByCountTiesFirst(sorted, item) ==
    LET k == Cardinality({ x \in DOMAIN sorted : sorted[x].count > item.count })
    IN  SubSeq(sorted, 1, k) \o <<item>> \o SubSeq(sorted, k + 1, Len(sorted))

\* item placed after the items of a greater or equal count
InsertByCount(sorted, item) ==
    LET k == Cardinality({ x \in DOMAIN sorted : sorted[x].count >= item.count })
    IN  SubSeq(sorted, 1, k) \o <<item>> \o SubSeq(sorted, k + 1, Len(sorted))

\* unknown_words.sort(key=lambda x: x[1], reverse=True): a stable sort
RECURSIVE SortByCount(_)
SortByCount(items) ==
    IF items = <<>> THEN <<>>
    ELSE InsertByCount(SortByCount(Front(items)), items[Len(items)])

\* for hanzi, count in counted_target.items(), from item x on
RECURSIVE ClassifyItems(_, _, _, _)
ClassifyItems(counted, known, x, acc) ==
    IF x > Len(counted) THEN acc
    ELSE IF is_word_known(counted[x].hanzi, known)
         THEN ClassifyItems(counted, known, x + 1,
                  [acc EXCEPT !.known_count = @ + counted[x].count])
         ELSE ClassifyItems(counted, known, x + 1,
                  [acc EXCEPT !.unknown_words = Append(@, counted[x])])

calculate_comprehension_stats(content, known) ==
    LET counted_target == Counter(content)
        acc == ClassifyItems(counted_target, known, 1,
                             [known_count |-> 0, unknown_words |-> <<>>])
    IN  [total_words |-> Len(content),
         unique_words |-> Len(counted_target),
         known_count |-> acc.known_count,
         unknown_words |-> SortByCount(acc.unknown_words)]

ScoreInit ==
    /\ pc = "score_call"
    /\ filtered_content \in SeqsUpTo(TokenPool, MaxTokens)
    /\ known_words \in ScoreKnownChoices
    /\ exclusions \in ExclusionChoices
    /\ stats = NoStats
    /\ raw_text = <<>> /\ cleaned_text = <<>> /\ text = <<>>
    /\ known_file = NoFile /\ cuts = {} /\ dp = <<>> /\ i = 0 /\ calls = <<>>
    /\ tokens = <<>> /\ outcome = NoOutcome

ScoreCall ==
    /\ pc = "score_call"
    /\ stats' = calculate_comprehension_stats(filtered_content, known_words)
    /\ pc' = "score_done"
    /\ UNCHANGED <<cleanVars, dpVars, checkerVars, known_words, exclusions,
                   tokens, filtered_content>>

ScoreNext == ScoreCall

SpecScore == ScoreInit /\ [][ScoreNext]_vars

----------------------------------------------------------------------------
(* Properties of the scorer *)

Scored == pc = "score_done"

Occurrences(tok, content) ==
    Cardinality({ x \in DOMAIN content : content[x] = tok })

FirstOccurrence(tok, content) ==
    MinOf({ x \in DOMAIN content : content[x] = tok })

\* a token is coverable: a member, or every character of it is
Coverable(tok, known) ==
    tok \in known \/ Range(tok) \subseteq { c[1] : c \in { w \in known : Len(w) = 1 } }

RECURSIVE SumOver(_, _, _)
SumOver(S, content, acc) ==
    IF S = {} THEN acc
    ELSE LET tok == CHOOSE t \in S : TRUE
         IN  SumOver(S \ {tok}, content, acc + Occurrences(tok, content))

UnknownListed(st) == { st.unknown_words[x] : x \in DOMAIN st.unknown_words }

\* C3: a token of the Exclusion Set is classified unknown: it is listed in
\* the unknown list with its frequency, also when it or each of its
\* characters is a known word.
C3_ExclusionOverridesCoverage ==
    Scored =>
        \A tok \in Range(filtered_content) \cap exclusions :
            [hanzi |-> tok, count |-> Occurrences(tok, filtered_content)]
                \in UnknownListed(stats)

\* C5: total, distinct and known counts and the unknown list of the scorer.
C5_ScorerCounts ==
    Scored =>
        LET distinct == Range(filtered_content)
            knowns == { t \in distinct : Coverable(t, known_words) }
        IN  /\ stats.total_words = Len(filtered_content)
            /\ stats.unique_words = Cardinality(distinct)
            /\ stats.known_count = SumOver(knowns, filtered_content, 0)
            /\ UnknownListed(stats) =
                  { [hanzi |-> t, count |-> Occurrences(t, filtered_content)] :
                      t \in distinct \ knowns }
            /\ Len(stats.unknown_words) = Cardinality(distinct \ knowns)
            /\ stats.known_count
                  + SumOver(distinct \ knowns, filtered_content, 0)
                  = stats.total_words
            /\ 0 <= stats.known_count
            /\ stats.known_count <= stats.total_words
            /\ ( /\ filtered_content =
                      << <<"wo">>, <<"ai">>, <<"ni">>, <<"wo">>, <<"ai">>, <<"mao">> >>
                 /\ known_words = { <<"wo">>, <<"ai">>, <<"ni">> } )
               => stats = [total_words |-> 6, unique_words |-> 4, known_count |-> 5,
                           unknown_words |-> << [hanzi |-> <<"mao">>, count |-> 1] >>]

\* a compound counted as known through its characters, beside a repeated
\* known token and an unknown one
C5_Witness ==
    /\ Scored
    /\ known_words = { <<"wo">>, <<"ai">>, <<"ni">> }
    /\ Occurrences(<<"wo", "ai">>, filtered_content) = 2
    /\ Occurrences(<<"mao">>, filtered_content) = 1
    /\ Occurrences(<<"ni">>, filtered_content) = 2
    /\ stats.known_count = 4
    /\ stats.unknown_words = << [hanzi |-> <<"mao">>, count |-> 1] >>

\* C6: the unknown list is in non-increasing order of frequency, and unknown
\* tokens of equal frequency are in the order of their first occurrence.
C6_FrequencyRankingStability ==
    Scored =>
        \A x, y \in DOMAIN stats.unknown_words :
            x < y =>
                LET a == stats.unknown_words[x]
                    b == stats.unknown_words[y]
                IN  /\ a.count >= b.count
                    /\ a.count = b.count =>
                          FirstOccurrence(a.hanzi, filtered_content)
                              < FirstOccurrence(b.hanzi, filtered_content)

\* three unknown tokens: the most frequent occurs last, the other two tie
C6_Witness ==
    /\ Scored
    /\ Len(stats.unknown_words) = 3
    /\ stats.unknown_words[1].count > stats.unknown_words[2].count
    /\ stats.unknown_words[2].count = stats.unknown_words[3].count
    /\ FirstOccurrence(stats.unknown_words[1].hanzi, filtered_content)
          > FirstOccurrence(stats.unknown_words[3].hanzi, filtered_content)

----------------------------------------------------------------------------
(* Characters beyond the Chinese ones, by the Unicode properties the code  *)
(* reads:                                                                  *)
(*   SP     U+0020 space             LF     U+000A line feed               *)
(*   e      U+0065 latin e           1      U+0031 digit one               *)
(*   comma  U+002C ","               hash   U+0023 "#"                     *)
(*   U00A8  diaeresis, category Sk, NFKD = U+0020 U+0308                   *)
(*   U00EB  e with diaeresis, NFKD = U+0065 U+0308                         *)
(*   U0308  combining diaeresis, category Mn                               *)
(*   U00B9  superscript one: str.isdigit, not str.isdecimal, NFKD = 1      *)
(*   UFF11  fullwidth digit one: a decimal digit, NFKD = 1                 *)
(*   UFF0C  fullwidth comma, NFKD = ","                                    *)

AllHanzi == Hanzi \cup {"wo", "ai", "ni", "mao"}

\* re's \s and str.isspace
IsSpace(c) == c \in {"SP", "LF"}

\* unicodedata.category(c) == "Mn"
IsMn(c) == c = "U0308"

\* the compatibility decomposition of one character
Nfkd(c) ==
    CASE c = "U00A8" -> <<"SP", "U0308">>
      [] c = "U00EB" -> <<"e", "U0308">>
      [] c = "U00B9" -> <<"1">>
      [] c = "UFF11" -> <<"1">>
      [] c = "UFF0C" -> <<"comma">>
      [] OTHER -> <<c>>

\* c.isdigit()
IsDigit(c) == c \in {"1", "U00B9", "UFF11"}

\* c.isalpha()
IsAlpha(c) == c \in {"e", "U00EB"} \cup AllHanzi

\* c.isascii()
IsAscii(c) == c \in {"SP", "LF", "e", "1", "comma", "hash"}

PUNCTUATION_CHARS == {"comma", "UFF0C"}

----------------------------------------------------------------------------
(* text_clean_up *)

\* longest text supplied to the normalizer and to the checker
MaxRaw == 3

CleanChars == {"SP", "LF", "U00A8", "U0308", "U00EB", "e", "wo"}

\* re.sub(r"\s+", "\n", text): each run of whitespace becomes one line feed
RECURSIVE SubWhitespace(_)
SubWhitespace(t) ==
    IF t = <<>> THEN <<>>
    ELSE IF IsSpace(Head(t))
         THEN IF Len(t) > 1 /\ IsSpace(t[2])
              THEN SubWhitespace(Tail(t))
              ELSE <<"LF">> \o SubWhitespace(Tail(t))
         ELSE <<Head(t)>> \o SubWhitespace(Tail(t))

\* str.split("\n"): the pieces between line feeds
RECURSIVE SplitLines(_, _)
SplitLines(t, piece) ==
    IF t = <<>> THEN <<piece>>
    ELSE IF Head(t) = "LF"
         THEN <<piece>> \o SplitLines(Tail(t), <<>>)
         ELSE SplitLines(Tail(t), Append(piece, Head(t)))

\* unicodedata.normalize("NFKD", text); the reordering of marks is left out,
\* the marks being removed next
RECURSIVE Normalize(_)
Normalize(t) == IF t = <<>> THEN <<>> ELSE Nfkd(Head(t)) \o Normalize(Tail(t))

StripMarks(t) == SelectSeq(t, LAMBDA c : ~IsMn(c))

text_clean_up(t) ==
    LET text_no_whitespace == Concat(SplitLines(SubWhitespace(t), <<>>))
        normalized == Normalize(text_no_whitespace)
    IN  StripMarks(normalized)

CleanInit ==
    /\ pc = "clean_call"
    /\ raw_text \in SeqsUpTo(CleanChars, MaxRaw)
    /\ cleaned_text = <<>>
    /\ text = <<>> /\ known_file = NoFile /\ known_words = {} /\ exclusions = {}
    /\ cuts = {} /\ dp = <<>> /\ i = 0 /\ calls = <<>> /\ tokens = <<>>
    /\ filtered_content = <<>> /\ stats = NoStats /\ outcome = NoOutcome

\* the normalizer applied to the supplied text
CleanCall ==
    /\ pc = "clean_call"
    /\ cleaned_text' = text_clean_up(raw_text)
    /\ pc' = "clean_once"
    /\ UNCHANGED <<raw_text, dpVars, scoreVars, checkerVars, known_words,
                   exclusions, tokens, filtered_content>>

\* the normalizer applied to its own result
CleanAgain ==
    /\ pc = "clean_once"
    /\ raw_text' = cleaned_text
    /\ cleaned_text' = text_clean_up(cleaned_text)
    /\ pc' = "clean_twice"
    /\ UNCHANGED <<dpVars, scoreVars, checkerVars, known_words, exclusions,
                   tokens, filtered_content>>

CleanNext == CleanCall \/ CleanAgain

SpecClean == CleanInit /\ [][CleanNext]_vars

\* C9: the normalizer is idempotent: applied to its own result it returns
\* that result, also for a character whose decomposition is a space and a mark.
C9_NormalizerIdempotent == pc = "clean_twice" => cleaned_text = raw_text

----------------------------------------------------------------------------
(* should_filter_word and filter_content *)

\* most tokens in a token sequence handed to filter_content alone
MaxFilterWords == 2

FilterChars == {"SP", "1", "U00B9", "comma", "hash", "e", "wo"}

\* tokens of at most two characters
FilterTokens ==
    {<<>>} \cup { <<c>> : c \in FilterChars }
           \cup { <<c, d>> : c \in FilterChars, d \in FilterChars }

\* str.strip(): leading and trailing whitespace removed
RECURSIVE LStrip(_)
LStrip(w) == IF w # <<>> /\ IsSpace(Head(w)) THEN LStrip(Tail(w)) ELSE w

RECURSIVE RStrip(_)
RStrip(w) == IF w # <<>> /\ IsSpace(w[Len(w)]) THEN RStrip(Front(w)) ELSE w

Strip(w) == RStrip(LStrip(w))

\* str.isdigit(): not empty, and every character a digit
IsDigitWord(w) == w # <<>> /\ \A x \in DOMAIN w : IsDigit(w[x])

should_filter_word_first_char(word) ==
    \/ Strip(word) = <<>>
    \/ IsDigitWord(word)
    \/ \A x \in DOMAIN word : word[x] \in PUNCTUATION_CHARS
    \/ IsAscii(word[1]) /\ (IsAlpha(word[1]) \/ IsDigit(word[1]))

should_filter_word(word) ==
    \/ Strip(word) = <<>>
    \/ IsDigitWord(word)
    \/ \A x \in DOMAIN word : word[x] \in PUNCTUATION_CHARS
    \/ \E x \in DOMAIN word :
          IsAscii(word[x]) /\ (IsAlpha(word[x]) \/ IsDigit(word[x]))

\* [word for word in words if not should_filter_word(word)]
RECURSIVE filter_content(_)
filter_content(words) ==
    IF words = <<>> THEN <<>>
    ELSE IF should_filter_word(Head(words))
         THEN filter_content(Tail(words))
         ELSE <<Head(words)>> \o filter_content(Tail(words))

FilterInit ==
    /\ pc = "filter_call"
    /\ tokens \in SeqsUpTo(FilterTokens, MaxFilterWords)
    /\ filtered_content = <<>>
    /\ raw_text = <<>> /\ cleaned_text = <<>> /\ text = <<>>
    /\ known_file = NoFile /\ known_words = {} /\ exclusions = {}
    /\ cuts = {} /\ dp = <<>> /\ i = 0 /\ calls = <<>>
    /\ stats = NoStats /\ outcome = NoOutcome

FilterCall ==
    /\ pc = "filter_call"
    /\ filtered_content' = filter_content(tokens)
    /\ pc' = "filter_done"
    /\ UNCHANGED <<cleanVars, dpVars, scoreVars, checkerVars, known_words,
                   exclusions, tokens>>

FilterNext == FilterCall

SpecFilter == FilterInit /\ [][FilterNext]_vars

----------------------------------------------------------------------------
(* Properties of the content filter *)

Filtered == pc = "filter_done"

\* a decimal digit (str.isdecimal): superscript one is a digit and not one
IsDecimal(c) == c \in {"1", "UFF11"}

AsciiAlnum(c) == c \in {"e", "1"}

AllOf(w, P(_)) == \A x \in DOMAIN w : P(w[x])

InPunctuation(c) == c \in PUNCTUATION_CHARS

IsHanzi(c) == c \in AllHanzi

\* the tokens the filter is to drop, digits read as decimal digits
DroppedAsClaimed(w) ==
    \/ AllOf(w, IsSpace)
    \/ w # <<>> /\ AllOf(w, IsDecimal)
    \/ AllOf(w, InPunctuation)
    \/ ~AllOf(w, LAMBDA c : ~AsciiAlnum(c))

\* the tokens the filter is to drop, digits read as str.isdigit reads them
DroppedAsAmended(w) ==
    \/ AllOf(w, IsSpace)
    \/ w # <<>> /\ AllOf(w, IsDigit)
    \/ AllOf(w, InPunctuation)
    \/ ~AllOf(w, LAMBDA c : ~AsciiAlnum(c))

\* C10 as stated: filter_content returns, in order and unaltered, exactly the
\* tokens that are not empty or all whitespace, not entirely decimal digits,
\* not entirely punctuation of the fixed set, and hold no ASCII letter or
\* digit.
C10_ContentFilterAsStated ==
    Filtered =>
        filtered_content = SelectSeq(tokens, LAMBDA w : ~DroppedAsClaimed(w))

\* C10 amended: the same, with "entirely digits" as str.isdigit has it, which
\* also takes digits that are not decimal (superscript one); a token of
\* Chinese characters only is kept, and one mixing Chinese characters with an
\* ASCII letter or digit is dropped.
C10_ContentFilter ==
    Filtered =>
        /\ filtered_content = SelectSeq(tokens, LAMBDA w : ~DroppedAsAmended(w))
        /\ \A x \in DOMAIN tokens :
              LET w == tokens[x]
                  kept == \E y \in DOMAIN filtered_content : filtered_content[y] = w
              IN  /\ (w # <<>> /\ AllOf(w, IsHanzi)) => kept
                  /\ (\E a, b \in DOMAIN w : IsHanzi(w[a]) /\ AsciiAlnum(w[b])) => ~kept

\* two tokens of which the filter keeps the second: a Chinese character
\* followed by an ASCII letter is dropped, a Chinese token is kept
C10_Witness ==
    /\ Filtered
    /\ tokens = << <<"wo", "e">>, <<"wo", "wo">> >>
    /\ filtered_content = << <<"wo", "wo">> >>

----------------------------------------------------------------------------
(* comprehension_checker: load the words, read the clipboard, clean,       *)
(* tokenize, filter, score, format; an exception becomes an error string.  *)

CheckerChars == {"SP", "U00A8", "U0308", "comma", "e", "1", "wo", "mao"}

\* the word lists the known-words file may hold
CheckerFiles == { {}, { <<"wo">> }, { <<"wo", "mao">> } }

\* the error strings comprehension_checker returns
ErrorString(message) == [kind |-> "error", message |-> message]
EmptyInput == ErrorString("Error: Clipboard is empty")
NoAnalyzableContent ==
    ErrorString("Error: No Chinese text found in clipboard after filtering")
VocabularyUnavailable == ErrorString("Error: Known words file not found")
Unexpected == ErrorString("Error: An unexpected error occurred")

\* the outer loop of dp_tokenize from position ii to the end
RECURSIVE DpRun(_, _, _, _)
DpRun(t, known, d, ii) ==
    IF ii > Len(t) THEN d ELSE DpRun(t, known, DpStep(t, known, d, ii), ii + 1)

DpTable(t, known) == DpRun(t, known, InitialTable(Len(t)), 1)

dp_tokenize(t, known) ==
    IF t = <<>> THEN <<>> ELSE StripTags(FinalSeg(t, DpTable(t, known)))

ClipboardIsEmptyOrBlank(t) == \A x \in DOMAIN t : IsSpace(t[x])

\* get_clipboard_text: if not text
ClipboardIsEmpty(t) == t = <<>>

Report(st) ==
    [kind |-> "report",
     total_words |-> st.total_words,
     unique_words |-> st.unique_words,
     permille |-> (st.known_count * 1000) \div st.total_words,
     unknown_words |-> st.unknown_words]

\* known_count / total_words with no check of total_words: ZeroDivisionError,
\* which comprehension_checker reports as an unexpected error
format_results_unchecked(st) ==
    IF st.total_words = 0 THEN Unexpected ELSE Report(st)

\* the percentage is kept in tenths of a percent, rounded down
format_results(st) ==
    IF st.total_words = 0 THEN NoAnalyzableContent ELSE Report(st)

CheckerInit ==
    /\ pc = "checker_call"
    /\ known_file \in {NoFile} \cup { FileOf(K) : K \in CheckerFiles }
    /\ raw_text \in SeqsUpTo(CheckerChars, MaxRaw)
    /\ cuts \in CutChoices
    /\ cleaned_text = <<>> /\ text = <<>> /\ known_words = {} /\ exclusions = {}
    /\ dp = <<>> /\ i = 0 /\ calls = <<>> /\ tokens = <<>> /\ filtered_content = <<>>
    /\ stats = NoStats /\ outcome = NoOutcome

\* known_words = load_word_list_from_file(known_words_path)
CheckerLoad ==
    /\ pc = "checker_call"
    /\ IF known_file = NoFile
       THEN /\ outcome' = VocabularyUnavailable
            /\ pc' = "checker_done"
            /\ UNCHANGED known_words
       ELSE /\ known_words' = load_word_list_from_file(known_file.words)
            /\ pc' = "checker_clipboard"
            /\ UNCHANGED outcome
    /\ UNCHANGED <<cleanVars, dpVars, scoreVars, known_file, exclusions, tokens,
                   filtered_content>>

\* target_text = get_clipboard_text()
CheckerClipboard ==
    /\ pc = "checker_clipboard"
    /\ IF ClipboardIsEmpty(raw_text)
       THEN /\ outcome' = EmptyInput
            /\ pc' = "checker_done"
       ELSE /\ pc' = "checker_clean"
            /\ UNCHANGED outcome
    /\ UNCHANGED <<cleanVars, dpVars, scoreVars, known_file, known_words,
                   exclusions, tokens, filtered_content>>

\* cleaned_text = text_clean_up(target_text)
CheckerClean ==
    /\ pc = "checker_clean"
    /\ cleaned_text' = text_clean_up(raw_text)
    /\ pc' = "checker_tokenize"
    /\ UNCHANGED <<raw_text, dpVars, scoreVars, checkerVars, known_words,
                   exclusions, tokens, filtered_content>>

\* tokenized_text = dp_tokenize(cleaned_text, known_words)
CheckerTokenize ==
    /\ pc = "checker_tokenize"
    /\ text' = cleaned_text
    /\ tokens' = dp_tokenize(cleaned_text, known_words)
    /\ pc' = "checker_filter"
    /\ UNCHANGED <<cleanVars, cuts, dp, i, calls, scoreVars, checkerVars, known_words,
                   exclusions, filtered_content>>

\* filtered_content = filter_content(tokenized_text)
CheckerFilter ==
    /\ pc = "checker_filter"
    /\ filtered_content' = filter_content(tokens)
    /\ pc' = "checker_stats"
    /\ UNCHANGED <<cleanVars, dpVars, scoreVars, checkerVars, known_words,
                   exclusions, tokens>>

\* calculate_comprehension_stats(filtered_content, known_words)
CheckerStats ==
    /\ pc = "checker_stats"
    /\ stats' = calculate_comprehension_stats(filtered_content, known_words)
    /\ pc' = "checker_format"
    /\ UNCHANGED <<cleanVars, dpVars, checkerVars, known_words, exclusions,
                   tokens, filtered_content>>

\* return format_results(total_words, unique_words, known_count, unknown_words)
CheckerFormat ==
    /\ pc = "checker_format"
    /\ outcome' = format_results(stats)
    /\ pc' = "checker_done"
    /\ UNCHANGED <<cleanVars, dpVars, scoreVars, known_file, known_words,
                   exclusions, tokens, filtered_content>>

CheckerNext ==
    \/ CheckerLoad
    \/ CheckerClipboard
    \/ CheckerClean
    \/ CheckerTokenize
    \/ CheckerFilter
    \/ CheckerStats
    \/ CheckerFormat

SpecChecker == CheckerInit /\ [][CheckerNext]_vars

----------------------------------------------------------------------------
(* Properties of comprehension_checker *)

CheckerDone == pc = "checker_done"

IsReport(o) == o.kind = "report"

\* the content filter has run: the statistics were computed from its result
FilterRan == stats # NoStats

\* C7: when the content filter leaves no token, the result is the
\* NoAnalyzableContent error: never a report with a percentage, never a
\* division fault; a report is only made of one token or more.
C7_ZeroTokenError ==
    CheckerDone =>
        /\ (FilterRan /\ filtered_content = <<>>) => outcome = NoAnalyzableContent
        /\ outcome # Unexpected
        /\ IsReport(outcome) => Len(filtered_content) > 0

\* a text of punctuation and Latin letters and digits only, tokenized and
\* filtered to nothing
C7_Witness ==
    /\ CheckerDone
    /\ cleaned_text = <<"comma", "e", "1">>
    /\ tokens # <<>>
    /\ filtered_content = <<>>
    /\ outcome = NoAnalyzableContent

\* C8 as stated, for a word list that loads: a text that is empty or becomes
\* empty after normalization gives EmptyInput; a text not empty after
\* normalization of which no token survives the filter gives
\* NoAnalyzableContent, a different outcome.
C8_EmptyInputAsStated ==
    (CheckerDone /\ known_file # NoFile) =>
        /\ (raw_text = <<>> \/ text_clean_up(raw_text) = <<>>) => outcome = EmptyInput
        /\ ( /\ text_clean_up(raw_text) # <<>>
             /\ FilterRan
             /\ filtered_content = <<>> ) => outcome = NoAnalyzableContent
        /\ EmptyInput # NoAnalyzableContent

\* C8 amended, for a word list that loads: EmptyInput is the outcome exactly
\* when the supplied text is empty; a text that is not empty and of which no
\* token survives the filter, the text that normalization empties included,
\* gives NoAnalyzableContent, a different outcome.
C8_EmptyInputDistinguished ==
    (CheckerDone /\ known_file # NoFile) =>
        /\ raw_text = <<>> <=> outcome = EmptyInput
        /\ (raw_text # <<>> /\ filtered_content = <<>>) => outcome = NoAnalyzableContent
        /\ raw_text # <<>> => FilterRan
        /\ EmptyInput # NoAnalyzableContent

\* a text of whitespace only: not empty, empty after normalization
C8_Witness ==
    /\ CheckerDone
    /\ raw_text = <<"SP", "SP">>
    /\ cleaned_text = <<>>
    /\ FilterRan
    /\ outcome = NoAnalyzableContent

\* the words of the word list file, and the characters that occur in them
BaseWords == known_file.words \ {<<>>}

BaseChars == UNION { Range(w) : w \in BaseWords }

\* the tokens the classification is examined on
ProbeTokens == SeqsUpTo({"wo", "mao", "ai"}, 3)

\* C11: once the word list is loaded, known_words is the base words together
\* with the one-character words of every character of a base word, and nothing
\* else; and every token all of whose characters occur in base words is
\* classified known by is_word_known, a base word or not.
C11_CharacterExpansion ==
    (known_file # NoFile /\ pc # "checker_call") =>
        /\ known_words = BaseWords \cup { <<c>> : c \in BaseChars }
        /\ \A tok \in ProbeTokens :
               Range(tok) \subseteq BaseChars => is_word_known(tok, known_words)

\* a report on a text with a token that is not a base word and is classified
\* known through the characters of the base word
C11_Witness ==
    /\ CheckerDone
    /\ IsReport(outcome)
    /\ known_file = FileOf({<<"wo", "mao">>})
    /\ \E x \in DOMAIN filtered_content :
          /\ filtered_content[x] \notin BaseWords
          /\ filtered_content[x] = <<"mao">>
          /\ is_word_known(filtered_content[x], known_words)

-----------------------------------------------------------------------------
(* dp_tokenize: the table while the loop runs.                             *)

\* the outer loop is about to process position i
AtPosition == pc = "dp_loop" /\ i <= Len(text)

\* the predecessor of position ii with the maximum score, the smallest on ties
SmallestBest(ii) ==
    CHOOSE x \in 0..(ii - 1) :
        /\ \A y \in 0..(ii - 1) : dp[y].score <= dp[x].score
        /\ \A y \in 0..(x - 1) : dp[y].score < dp[x].score

C12_Step ==
    (AtPosition /\ CandidateStarts(i) = {}) =>
        LET x == SmallestBest(i)
        IN  /\ dp'[i].score = dp[x].score
            /\ dp'[i].seg = dp[x].seg
            /\ dp'[i].unknown_start =
                   IF dp[x].unknown_start = -1 THEN x ELSE dp[x].unknown_start
            /\ KnownLength(dp'[i].seg) = KnownLength(dp[x].seg)
            /\ calls' = calls

\* C12: when no known word of length at most MAX_WORD_LENGTH ends at position
\* i, the step that processes i gives dp[i] the score and the token sequence
\* of the predecessor x in [0, i) with the maximum score, the smallest such x
\* on ties; its open-run start is x when dp[x] has no open run and dp[x]'s
\* open-run start otherwise; the score is not increased, and jieba.cut is not
\* called in that step.
C12_UnknownRunExtension == [][C12_Step]_vars

\* a position without a known word ending at it has been processed, after an
\* earlier known word and an earlier call of jieba.cut: its run starts at a
\* position other than 0
C12_Witness ==
    /\ pc = "dp_loop"
    /\ i >= 2
    /\ CandidateStarts(i - 1) = {}
    /\ dp[i - 1].unknown_start > 0
    /\ dp[i - 1].seg # <<>>
    /\ calls # <<>>

\* the entry dp[k]: a finite score that is the total length of its
\* known-tagged tokens, a run start that is the sentinel or in [0, k), and
\* tokens that concatenate to text[0:u] with a run open at u, to text[0:k]
\* without
EntryOk(k) ==
    LET u == dp[k].unknown_start
    IN  /\ dp[k].score # NegInf
        /\ dp[k].score = KnownLength(dp[k].seg)
        /\ u = -1 \/ (0 <= u /\ u < k)
        /\ Concat(StripTags(dp[k].seg)) = Slice(text, 0, IF u = -1 THEN k ELSE u)

\* the positions processed so far: below i while the loop runs, and after the
\* return those below the last, whose token list the return extends in place
Processed ==
    IF pc = "dp_loop" THEN 0..(i - 1)
    ELSE IF Returned THEN 0..(Len(text) - 1)
    ELSE {}

TableOk == \A k \in Processed : EntryOk(k)

\* every slice handed to jieba.cut is a slice of the text that is not empty
NoEmptyCall ==
    \A x \in DOMAIN calls :
        0 <= calls[x][1] /\ calls[x][1] < calls[x][2] /\ calls[x][2] <= Len(text)

\* a step of the loop leaves the entries of the processed positions as they are
EarlierEntriesKept ==
    (pc = "dp_loop" /\ pc' = "dp_loop") => \A k \in 0..(i - 1) : dp'[k] = dp[k]

C13_Step == TableOk' /\ NoEmptyCall' /\ EarlierEntriesKept

\* C13: after position i has been processed, every entry dp[k], k <= i, has a
\* finite score equal to the total length of its known-tagged tokens, a run
\* start that is -1 or in [0, k), and a token sequence that concatenates to
\* text[0:u] when a run is open at u and to text[0:k] otherwise; processing a
\* later position leaves dp[k] as it is; and jieba.cut is never called on an
\* empty slice.
C13_TableInvariant == [][C13_Step]_vars

\* the whole of a text of MaxLen characters has been processed, with an entry
\* that has a run open after a known word, a later entry without a run, and a
\* call of jieba.cut made
C13_Witness ==
    /\ pc = "dp_loop"
    /\ i = Len(text) + 1
    /\ \E k, m \in 1..Len(text) :
          /\ k < m
          /\ dp[k].unknown_start > 0
          /\ dp[m].unknown_start = -1
          /\ dp[m].score > dp[k].score
    /\ calls # <<>>

-----------------------------------------------------------------------------
(* dp_tokenize on a known-word set that holds the characters of its words. *)

ClosedUnderChars(K) == \A w \in K : \A x \in DOMAIN w : <<w[x]>> \in K

\* the character at position p (from 0) is a member of known_words
IsMember(p) == <<text[p + 1]>> \in known_words

MemberCount(k) == Cardinality({ p \in 0..(k - 1) : IsMember(p) })

\* the maximal runs [a, b) of consecutive characters that are not members
NonMemberRuns ==
    { r \in (0..Len(text)) \X (0..Len(text)) :
        /\ r[1] < r[2]
        /\ \A p \in r[1]..(r[2] - 1) : ~IsMember(p)
        /\ r[1] = 0 \/ IsMember(r[1] - 1)
        /\ r[2] = Len(text) \/ IsMember(r[2]) }

\* the position in the text at which token x of seg starts
StartOf(seg, x) == Len(Concat(StripTags(SubSeq(seg, 1, x - 1))))

\* the positions inside known-tagged tokens of seg
KnownPositions(seg) ==
    UNION { StartOf(seg, x)..(StartOf(seg, x + 1) - 1) :
              x \in { y \in DOMAIN seg : seg[y].is_known } }

\* the maximal groups of consecutive unknown-tagged tokens of seg, as slices
\* [a, b): the result of one call of jieba.cut each, a known word or the end
\* of the text following every call
UnknownGroups(seg) ==
    { r \in (0..Len(text)) \X (0..Len(text)) :
        \E x, y \in DOMAIN seg :
            /\ x <= y
            /\ \A z \in x..y : ~seg[z].is_known
            /\ x = 1 \/ seg[x - 1].is_known
            /\ y = Len(seg) \/ seg[y + 1].is_known
            /\ r[1] = StartOf(seg, x)
            /\ r[2] = StartOf(seg, y + 1) }

\* the words of the tokens of seg that start inside [a, b), from token x on
RECURSIVE WordsWithin(_, _, _, _)
WordsWithin(seg, x, a, b) ==
    IF x > Len(seg) THEN <<>>
    ELSE (IF a <= StartOf(seg, x) /\ StartOf(seg, x) < b
          THEN <<seg[x].word>>
          ELSE <<>>)
         \o WordsWithin(seg, x + 1, a, b)

\* C14: with known_words closed under characters, dp_tokenize returns a
\* segmentation in which exactly the characters that are members lie inside
\* known-tagged tokens and the unknown-tagged tokens are jieba.cut of exactly
\* the maximal runs of non-member characters, one call per run on the final
\* path and a single call over the whole text when no character is a member;
\* the final score is the number of member characters, the scores of the
\* table do not decrease with the position, and is_word_known classifies every
\* known-tagged token known and every token of jieba.cut unknown.
C14_ClosedSetSegmentation ==
    ClosedUnderChars(known_words) =>
        /\ pc = "dp_loop" =>
              \A k \in 0..(i - 1) :
                  /\ dp[k].score = MemberCount(k)
                  /\ \A m \in k..(i - 1) : dp[k].score <= dp[m].score
        /\ Returned =>
              LET n == Len(text)
                  seg == dp[n].seg
              IN  /\ tokens = StripTags(seg)
                  /\ KnownPositions(seg) = { p \in 0..(n - 1) : IsMember(p) }
                  /\ UnknownGroups(seg) = NonMemberRuns
                  /\ \A r \in NonMemberRuns :
                         WordsWithin(seg, 1, r[1], r[2]) =
                             jieba_cut(Slice(text, r[1], r[2]))
                  /\ Range(calls) = NonMemberRuns
                  /\ MemberCount(n) = 0 => calls = << <<0, n>> >>
                  /\ dp[n].score = MemberCount(n)
                  /\ \A k, m \in 0..n : k <= m => dp[k].score <= dp[m].score
                  /\ \A x \in DOMAIN seg :
                         seg[x].is_known <=> is_word_known(seg[x].word, known_words)

\* a text returned with two runs of non-member characters around a known word
\* of two characters, the first run handed to jieba.cut more than once while
\* the loop ran
C14_Witness ==
    /\ Returned
    /\ ClosedUnderChars(known_words)
    /\ Cardinality(NonMemberRuns) = 2
    /\ Len(calls) > 2
    /\ \E x \in DOMAIN dp[Len(text)].seg :
          /\ dp[Len(text)].seg[x].is_known
          /\ Len(dp[Len(text)].seg[x].word) = 2

====
